---- MODULE Spec2Model ----
(***************************************************************************)
(* POMLToVFCParser of POML2VFC.py as a state machine.                      *)
(*                                                                         *)
(* A string is a sequence of one-character strings; a literal fragment of  *)
(* an f-string is kept as one element of such a sequence.  An output line  *)
(* is a string, the line buffer vfc_lines a sequence of lines.  An element *)
(* of the parsed tree is a record [tag, attrib, text, children]; an absent *)
(* attribute or text (Python None) is <<>>, a present one is <<s>>.        *)
(* The recursion of _process_element is the variable stack: one frame per  *)
(* active call, holding the path of its element and the index of the next  *)
(* child its for-loop will visit.                                          *)
(* Two variables are history, not state of the program: origin, the call   *)
(* that appended each line of the buffer, and stale, the number of lines   *)
(* the running call of parse found in the buffer (kept up to the header).  *)
(* The variable earlier is the caller's: the copy it has kept of one       *)
(* conversion that returned, to compare later conversions with.            *)
(***************************************************************************)
EXTENDS Naturals, Sequences, FiniteSets, TLC

VARIABLES vfc_lines, indent_level, pc, root, output_filename, stack,
          result, origin, stale, earlier

vars == <<vfc_lines, indent_level, pc, root, output_filename, stack,
          result, origin, stale, earlier>>

(***************************************************************************)
(* Bounds of the input sets.                                               *)
(***************************************************************************)
MaxNodes == 3
MaxValLen == 4

\* The children of the one element below the root, in the documents two
\* conversions are compared on.
MaxPairChildren == 2

(***************************************************************************)
(* Strings.                                                                *)
(***************************************************************************)
Whitespace == {" ", "\n"}

RECURSIVE lstrip(_)
lstrip(s) == IF s # <<>> /\ Head(s) \in Whitespace THEN lstrip(Tail(s)) ELSE s

RECURSIVE rstrip(_)
rstrip(s) ==
    IF s # <<>> /\ s[Len(s)] \in Whitespace
    THEN rstrip(SubSeq(s, 1, Len(s) - 1))
    ELSE s

strip(s) == rstrip(lstrip(s))

\* s.split('\n'): the pieces between line breaks; never an empty list.
RECURSIVE splitFrom(_, _)
splitFrom(s, cur) ==
    IF s = <<>> THEN <<cur>>
    ELSE IF Head(s) = "\n" THEN <<cur>> \o splitFrom(Tail(s), <<>>)
    ELSE splitFrom(Tail(s), Append(cur, Head(s)))

split(s) == splitFrom(s, <<>>)

\* '\n'.join(lines)
RECURSIVE join(_)
join(lines) ==
    IF lines = <<>> THEN <<>>
    ELSE IF Len(lines) = 1 THEN lines[1]
    ELSE lines[1] \o <<"\n">> \o join(Tail(lines))

RECURSIVE StringsOfLen(_, _)
StringsOfLen(chars, n) ==
    IF n = 0 THEN {<<>>}
    ELSE {<<c>> \o s : c \in chars, s \in StringsOfLen(chars, n - 1)}

StringsUpTo(chars, n) == UNION {StringsOfLen(chars, k) : k \in 0..n}

(***************************************************************************)
(* Elements (xml.etree.ElementTree.Element).                               *)
(***************************************************************************)
AttrNames == {"name", "value", "condition", "each", "in"}

NoAttrib == [k \in AttrNames |-> <<>>]

Attrib(k1, v1, k2, v2) ==
    [k \in AttrNames |-> IF k = k1 THEN v1 ELSE IF k = k2 THEN v2 ELSE <<>>]

Element(tag, attrib, text, children) ==
    [tag |-> tag, attrib |-> attrib, text |-> text, children |-> children]

get_none(element, key, default) ==
    IF element.attrib[key] = <<>> THEN <<"None">> ELSE element.attrib[key][1]

\* element.get(key, default)
get(element, key, default) ==
    IF element.attrib[key] = <<>> THEN default ELSE element.attrib[key][1]

\* tag.lower(), on the tags the inputs use
lower(tag) ==
    CASE tag = "POML" -> "poml"
      [] tag = "FOR" -> "for"
      [] tag = "Else" -> "else"
      [] OTHER -> tag

\* The element at a path of child indices below root.
RECURSIVE ElementAt(_, _)
ElementAt(element, path) ==
    IF path = <<>> THEN element
    ELSE ElementAt(element.children[Head(path)], Tail(path))

\* element.text.strip() if element.text else ''
text_or_empty(element) ==
    IF element.text = <<>> \/ element.text[1] = <<>>
    THEN <<>>
    ELSE strip(element.text[1])

(***************************************************************************)
(* _process_element: the lines each tag's branch appends.                  *)
(***************************************************************************)
RECURSIVE let_rest_lines_keep_bracket(_)
let_rest_lines_keep_bracket(lines) ==
    IF lines = <<>> THEN <<>>
    ELSE LET line == strip(Head(lines)) IN
         (IF line # <<>> THEN << <<"set(">> \o line \o <<");">> >> ELSE <<>>)
         \o let_rest_lines_keep_bracket(Tail(lines))

\* for line in lines[1:]: the set() line of every line kept
RECURSIVE let_rest_lines(_)
let_rest_lines(lines) ==
    IF lines = <<>> THEN <<>>
    ELSE LET line == strip(Head(lines)) IN
         (IF line # <<>> /\ line # <<"]">>
          THEN << <<"set(">> \o line \o <<");">> >>
          ELSE <<>>)
         \o let_rest_lines(Tail(lines))

let_closing_lines_untrimmed(lines) ==
    IF lines[Len(lines)] = <<"]">> THEN << <<"set(]\");">> >> ELSE <<>>

\* if lines[-1].strip() == ']': the closing line
let_closing_lines(lines) ==
    IF strip(lines[Len(lines)]) = <<"]">> THEN << <<"set(]\");">> >> ELSE <<>>

let_multi_lines(name, value) ==
    LET lines == split(strip(value))
        first_line == strip(lines[1])
    IN  << <<"set(name=\"">> \o name \o <<"\" value=\"">> \o first_line \o <<"\");">> >>
        \o let_rest_lines(Tail(lines))
        \o let_closing_lines(lines)

let_single_lines(name, value) ==
    << <<"set(name=\"">> \o name \o <<"\" value=\"">> \o value \o <<"\");">> >>

let_suffix_lines_no_end == << <<>> >>

let_suffix_lines == << <<"end();">>, <<>> >>

let_lines(element) ==
    LET name == get(element, "name", <<>>)
        value == get(element, "value", <<>>)
    IN  (IF \E i \in 1..Len(value) : value[i] = "\n"
         THEN let_multi_lines(name, value)
         ELSE let_single_lines(name, value))
        \o let_suffix_lines

task_lines(element) == << <<"input(">> \o text_or_empty(element) \o <<");">> >>

p_lines(element) == << <<"output(">> \o text_or_empty(element) \o <<");">> >>

for_open_lines(element) == << <<"loop(for each);">> >>

for_close_lines_missing(element) == <<>>

for_close_lines(element) == << <<"lend();">> >>

if_open_lines(element) ==
    << <<"branch(if  condition=\"">> \o get(element, "condition", <<>>) \o <<"\");">>,
       <<"path();">> >>

if_close_lines_bend(element) == << <<"bend();">> >>

\* the if branch appends nothing after its children
if_close_lines(element) == <<>>

elseif_open_lines(element) ==
    << <<"path(condition=\"">> \o get(element, "condition", <<>>) \o <<"\");">> >>

else_open_lines(element) == << <<"path(else);">> >>

else_close_lines(element) == << <<"bend();">> >>

\* the fallback of src/_POML2VFC.py: the element as a set() line
unknown_lines_set(element) ==
    << <<"set(<", element.tag, ">">> \o text_or_empty(element)
         \o <<"</", element.tag, ">);">> >>

\* else: unknown element, no line of its own
unknown_lines(element) == <<>>

\* The tags whose branch has no  for child in element  loop.
LeafTags == {"let", "task", "p"}

visits_children(element) == lower(element.tag) \notin LeafTags

\* The lines a call appends before it visits the children.
before_children(element) ==
    LET tag == lower(element.tag) IN
    CASE tag = "poml" -> <<>>
      [] tag = "let" -> let_lines(element)
      [] tag = "task" -> task_lines(element)
      [] tag = "for" -> for_open_lines(element)
      [] tag = "if" -> if_open_lines(element)
      [] tag = "elseif" -> elseif_open_lines(element)
      [] tag = "else" -> else_open_lines(element)
      [] tag = "p" -> p_lines(element)
      [] OTHER -> unknown_lines(element)

\* The lines a call appends after the children, before it returns.
after_children(element) ==
    LET tag == lower(element.tag) IN
    CASE tag = "for" -> for_close_lines(element)
      [] tag = "if" -> if_close_lines(element)
      [] tag = "else" -> else_close_lines(element)
      [] OTHER -> <<>>

\* _process_element as a function of the element: the lines one call
\* appends, those of the calls it makes on the children included.
RECURSIVE process_element_lines(_)
RECURSIVE children_lines(_)
children_lines(children) ==
    IF children = <<>> THEN <<>>
    ELSE process_element_lines(Head(children)) \o children_lines(Tail(children))

process_element_lines(element) ==
    before_children(element)
      \o (IF visits_children(element) THEN children_lines(element.children) ELSE <<>>)
      \o after_children(element)

(***************************************************************************)
(* _add_header, _add_footer.                                               *)
(***************************************************************************)
Digits == <<"0", "1", "2", "3", "4", "5", "6", "7", "8", "9">>

\* now.strftime("%I:%M:%S %p - %d:%b:%Y"), for a clock read on the hour of
\* 15 Sep 2025: %I is the hour on the 12-hour dial, %p its half of the day.
strftime(hour) ==
    LET dial == IF hour % 12 = 0 THEN 12 ELSE hour % 12 IN
    <<(IF dial < 10 THEN "0" ELSE "1"), Digits[(dial % 10) + 1], ":00:00 ",
      (IF hour < 12 THEN "AM" ELSE "PM"), " - 15:Sep:2025">>

header_lines_stamped(filename, hour) ==
    << <<";  IRL FlowCode Version: Version 10.0">>,
       <<";  c1995-2015: Visual Flow Coder by 2LResearch ">> \o strftime(hour),
       <<";">>,
       <<";  File Name : ">> \o filename,
       <<";  File Date : ">> \o strftime(hour),
       <<>> >>

header_lines(filename, hour) ==
    << <<";  IRL FlowCode Version: Version 10.0">>,
       <<";  c1995-2015: Visual Flow Coder by 2LResearch">>,
       <<";">>,
       <<";  File Name : ">> \o filename,
       <<";  File Date : ">> \o strftime(hour),
       <<>> >>

footer_lines ==
    << <<"end();">>,
       <<>>,
       <<>>,
       <<>>,
       <<";INSECTA EMBEDDED SESSION INFORMATION">>,
       <<"; 255 16777215 65280 16777088 16711680 13158600 13158600 0 255 255 9895835 6946660 3289650">>,
       <<";       //   ...">>,
       <<"; notepad.exe">>,
       <<";INSECTA EMBEDDED ALTSESSION INFORMATION">>,
       <<"; 1286 256 1272 1162 0 160   632   226    default.key  0">> >>

(***************************************************************************)
(* Inputs.  poml_content is known by what ET.fromstring makes of it: the   *)
(* root of a tree (Trees) or a ParseError (Diagnostics).  The other inputs *)
(* are the output file name and the clock reading of _add_header.          *)
(***************************************************************************)
DefaultAttrib(tag) ==
    CASE lower(tag) = "let" -> Attrib("name", <<<<"x">>>>, "value", <<<<"1">>>>)
      [] lower(tag) = "for" -> Attrib("each", <<<<"i">>>>, "in", <<<<"x", "s">>>>)
      [] lower(tag) \in {"if", "elseif"} -> Attrib("condition", <<<<"c">>>>, "condition", <<<<"c">>>>)
      [] OTHER -> NoAttrib

DefaultText(tag) == IF lower(tag) \in {"task", "p"} THEN <<<<"a">>>> ELSE <<>>

Node(tag, children) == Element(tag, DefaultAttrib(tag), DefaultText(tag), children)

\* The forests of exactly n elements with tags in tags.
RECURSIVE ForestsOf(_, _)
ForestsOf(tags, n) ==
    IF n = 0 THEN {<<>>}
    ELSE UNION {
           {<<Node(t, cs)>> \o rest :
              t \in tags, cs \in ForestsOf(tags, k - 1), rest \in ForestsOf(tags, n - k)}
           : k \in 1..n}

ForestsUpTo(tags, n) == UNION {ForestsOf(tags, k) : k \in 0..n}

Poml(children) == Element("poml", NoAttrib, <<>>, children)

StructTags == {"if", "elseif", "else", "for", "let"}

AllTags == StructTags \cup {"task", "p", "div", "FOR"}

StructTrees == {Poml(f) : f \in ForestsUpTo(StructTags, MaxNodes)}

MiscTrees == {Poml(f) : f \in ForestsUpTo(AllTags, MaxNodes - 1)}

BranchTrees ==
    {Poml(<<Node("if", b1), Node("else", b2)>>) :
       b1 \in ForestsUpTo({"if", "else"}, MaxNodes - 1),
       b2 \in ForestsUpTo({"if", "else"}, MaxNodes - 1)}

ValChars == {"a", " ", "\n", "]"}

ExampleValue == <<"a", ",", "\n", "b", ",", "\n", "]">>

OptStrings(strings) == {<<>>} \cup {<<s>> : s \in strings}

LetTrees ==
    {Poml(<<Element("let", Attrib("name", n, "value", v), <<>>, <<>>)>>) :
       n \in OptStrings({<<"x">>}),
       v \in OptStrings(StringsUpTo(ValChars, MaxValLen) \cup {ExampleValue})}

TextTrees ==
    {Poml(<<Element(t, NoAttrib, x, <<>>)>>) :
       t \in {"task", "p"}, x \in OptStrings(StringsUpTo({"a", " ", "\n"}, MaxValLen))}

BareTrees == {Poml(<<Element(t, NoAttrib, <<>>, <<>>)>>) : t \in AllTags}

RootTrees ==
    {Element(t, DefaultAttrib(t), DefaultText(t), f) :
       t \in AllTags \cup {"POML", "Else"}, f \in ForestsUpTo({"for", "p"}, 1)}

Trees ==
    StructTrees \cup MiscTrees \cup BranchTrees \cup LetTrees \cup TextTrees
      \cup BareTrees \cup RootTrees

Diagnostics == {"syntax error: line 1, column 0", "mismatched tag: line 1, column 9"}

\* The local root before ET.fromstring has bound it.
Unbound == Element("", NoAttrib, <<>>, <<>>)

FileNames == {<<"converted.py.vfc">>, <<"out.vfc">>}

Hours == {1, 13}

(***************************************************************************)
(* The parser instance and the calls of parse on it.                       *)
(***************************************************************************)
NoResult == [kind |-> "none", value |-> <<>>]

Returned(text) == [kind |-> "text", value |-> text]

Raised(message) == [kind |-> "ValueError", value |-> message]

\* A call of parse has returned text.
Done == pc = "idle" /\ result.kind = "text"

HeaderOrigin == <<0>>

\* origin[i] names the call that appended vfc_lines[i]: the path of its
\* element, or HeaderOrigin for _add_header and _add_footer.
Extend(lines, by) == origin \o [i \in 1..Len(lines) |-> by]

NothingKept ==
    [kept |-> FALSE, root |-> Unbound, output_filename |-> <<>>, vfc_lines |-> <<>>]

extend_lines_front(buffer, lines) == lines \o buffer

\* self.vfc_lines.extend(lines), self.vfc_lines.append(line)
extend_lines(buffer, lines) == buffer \o lines

\* __init__
Init ==
    /\ vfc_lines = <<>>
    /\ indent_level = 0
    /\ pc = "idle"
    /\ root = Unbound
    /\ output_filename = <<"converted.py.vfc">>
    /\ stack = <<>>
    /\ result = NoResult
    /\ origin = <<>>
    /\ stale = 0
    /\ earlier = NothingKept

reset_vfc_lines_kept(old) == old

\* self.vfc_lines = []
reset_vfc_lines(old) == <<>>

\* self.indent_level = 0
reset_indent_level(old) == 0

\* parse, lines 14-15: the call's entry
parse ==
    /\ pc = "idle"
    /\ \E filename \in FileNames : output_filename' = filename
    /\ root' = Unbound
    /\ vfc_lines' = reset_vfc_lines(vfc_lines)
    /\ origin' = SubSeq(origin, 1, Len(vfc_lines'))
    /\ indent_level' = reset_indent_level(indent_level)
    /\ result' = NoResult
    /\ stack' = <<>>
    /\ stale' = Len(vfc_lines)
    /\ pc' = "add_header"
    /\ UNCHANGED earlier

_add_header ==
    /\ pc = "add_header"
    /\ \E now \in Hours :
         LET lines == header_lines(output_filename, now) IN
         /\ vfc_lines' = extend_lines(vfc_lines, lines)
         /\ origin' = Extend(lines, HeaderOrigin)
    /\ stale' = 0
    /\ pc' = "fromstring"
    /\ UNCHANGED <<indent_level, root, output_filename, stack, result, earlier>>

\* root = ET.fromstring(poml_content), poml_content well-formed and
\* parsing to one of trees
FromString(trees) ==
    /\ pc = "fromstring"
    /\ \E tree \in trees : root' = tree
    /\ pc' = "process_root"
    /\ UNCHANGED <<vfc_lines, indent_level, output_filename, stack, result, origin, stale, earlier>>

fromstring == FromString(Trees)

\* except ET.ParseError as e: raise ValueError(f"Invalid POML XML: {e}")
on_parse_error_swallowed(diagnostic) == Returned(join(vfc_lines))

on_parse_error(diagnostic) == Raised(<<"Invalid POML XML: ", diagnostic>>)

\* ET.fromstring raises ParseError (poml_content is not well-formed), and
\* parse raises ValueError from it
parse_error ==
    /\ pc = "fromstring"
    /\ \E diagnostic \in Diagnostics : result' = on_parse_error(diagnostic)
    /\ pc' = "idle"
    /\ UNCHANGED <<vfc_lines, indent_level, root, output_filename, stack, origin, stale, earlier>>

\* A call of _process_element up to its first child, or to its return when
\* its branch visits no children or there are none.
Call(path, below) ==
    LET element == ElementAt(root, path)
        opened == before_children(element)
        inside == visits_children(element) /\ element.children # <<>>
        closed == IF inside THEN <<>> ELSE after_children(element)
    IN  /\ vfc_lines' = extend_lines(vfc_lines, opened \o closed)
        /\ origin' = Extend(opened \o closed, path)
        /\ stack' = IF inside THEN Append(below, [path |-> path, child |-> 1]) ELSE below
        /\ pc' = IF ~inside /\ below = <<>> THEN "add_footer" ELSE "process_element"

\* self._process_element(root)
process_root ==
    /\ pc = "process_root"
    /\ Call(<<>>, <<>>)
    /\ UNCHANGED <<indent_level, root, output_filename, result, stale, earlier>>

Top == stack[Len(stack)]

TopElement == ElementAt(root, Top.path)

\* for child in element: self._process_element(child)
process_child ==
    /\ pc = "process_element"
    /\ stack # <<>>
    /\ Top.child <= Len(TopElement.children)
    /\ Call(Append(Top.path, Top.child),
            [stack EXCEPT ![Len(stack)].child = @ + 1])
    /\ UNCHANGED <<indent_level, root, output_filename, result, stale, earlier>>

\* the for-loop is exhausted: the rest of the branch, and the return
process_return ==
    /\ pc = "process_element"
    /\ stack # <<>>
    /\ Top.child > Len(TopElement.children)
    /\ LET lines == after_children(TopElement) IN
         /\ vfc_lines' = extend_lines(vfc_lines, lines)
         /\ origin' = Extend(lines, Top.path)
    /\ stack' = SubSeq(stack, 1, Len(stack) - 1)
    /\ pc' = IF Len(stack) = 1 THEN "add_footer" ELSE "process_element"
    /\ UNCHANGED <<indent_level, root, output_filename, result, stale, earlier>>

_add_footer ==
    /\ pc = "add_footer"
    /\ vfc_lines' = extend_lines(vfc_lines, footer_lines)
    /\ origin' = Extend(footer_lines, HeaderOrigin)
    /\ pc' = "return"
    /\ UNCHANGED <<indent_level, root, output_filename, stack, result, stale, earlier>>

serialize_trailing(lines) == join(lines) \o <<"\n">>

\* '\n'.join(self.vfc_lines)
serialize(lines) == join(lines)

\* return '\n'.join(self.vfc_lines)
parse_return ==
    /\ pc = "return"
    /\ result' = Returned(serialize(vfc_lines))
    /\ pc' = "idle"
    /\ UNCHANGED <<vfc_lines, indent_level, root, output_filename, stack, origin, stale, earlier>>

Next ==
    \/ parse
    \/ _add_header
    \/ fromstring
    \/ parse_error
    \/ process_root
    \/ process_child
    \/ process_return
    \/ _add_footer
    \/ parse_return

Spec == Init /\ [][Next]_vars

(***************************************************************************)
(* Two conversions side by side.  The caller keeps the tree, the file name *)
(* and the lines of one conversion that returned and converts again, with  *)
(* the same instance or with a new one.  The documents are the root with a *)
(* row of childless elements below it, and the root with one element below *)
(* it that holds such a row: an unknown element, or a let, task or p.      *)
(***************************************************************************)
PairTags == {"p", "for"}

Wrappers == {"div", "let", "task", "p"}

\* The rows of exactly n childless elements with tags in tags.
RECURSIVE RowsOf(_, _)
RowsOf(tags, n) ==
    IF n = 0 THEN {<<>>}
    ELSE {<<Node(t, <<>>)>> \o rest : t \in tags, rest \in RowsOf(tags, n - 1)}

Rows == UNION {RowsOf(PairTags, n) : n \in 0..MaxPairChildren}

PairTrees ==
    {Poml(row) : row \in Rows}
      \cup {Poml(<<Node(w, row)>>) : w \in Wrappers, row \in Rows}

fromstring_pair == FromString(PairTrees)

\* vfc_content = parser.parse(poml_content, ...): the caller keeps what a
\* conversion gave
remember ==
    /\ Done
    /\ ~earlier.kept
    /\ earlier' = [kept |-> TRUE, root |-> root,
                   output_filename |-> output_filename, vfc_lines |-> vfc_lines]
    /\ UNCHANGED <<vfc_lines, indent_level, pc, root, output_filename, stack,
                   result, origin, stale>>

\* parser = POMLToVFCParser(): the next conversion is a new instance's
new_parser ==
    /\ Done
    /\ vfc_lines' = <<>>
    /\ indent_level' = 0
    /\ root' = Unbound
    /\ output_filename' = <<"converted.py.vfc">>
    /\ stack' = <<>>
    /\ result' = NoResult
    /\ origin' = <<>>
    /\ stale' = 0
    /\ UNCHANGED <<pc, earlier>>

NextPair ==
    \/ parse
    \/ _add_header
    \/ fromstring_pair
    \/ parse_error
    \/ process_root
    \/ process_child
    \/ process_return
    \/ _add_footer
    \/ parse_return
    \/ remember
    \/ new_parser

PairSpec == Init /\ [][NextPair]_vars

(***************************************************************************)
(* Vocabulary of the properties.                                           *)
(***************************************************************************)
StartsWith(line, token) == line # <<>> /\ line[1] = token

IsLoop(line) == StartsWith(line, "loop(for each);")

IsLend(line) == StartsWith(line, "lend();")

IsBranch(line) == StartsWith(line, "branch(if  condition=\"")

IsBend(line) == StartsWith(line, "bend();")

RECURSIVE PathsIn(_)
PathsIn(element) ==
    {<<>>} \cup UNION {{<<i>> \o q : q \in PathsIn(element.children[i])} :
                         i \in 1..Len(element.children)}

TagAt(path) == lower(ElementAt(root, path).tag)

\* No proper ancestor of the element at path is a let, task or p element.
NotBelowLeaf(path) ==
    \A k \in 0..(Len(path) - 1) : TagAt(SubSeq(path, 1, k)) \notin {"let", "task", "p"}

\* by names a call on a proper descendant of the element at path.
Inside(path, by) ==
    /\ by # HeaderOrigin
    /\ Len(by) > Len(path)
    /\ SubSeq(by, 1, Len(path)) = path

LinesOf(path, Is(_)) == {i \in DOMAIN vfc_lines : origin[i] = path /\ Is(vfc_lines[i])}

LinesInside(path) == {i \in DOMAIN vfc_lines : Inside(path, origin[i])}

CountLines(Is(_)) == Cardinality({i \in DOMAIN vfc_lines : Is(vfc_lines[i])})

\* Reading lines front to back with the open tokens not yet closed in open:
\* every close token closes the latest open one, of its own kind.
RECURSIVE Nested(_, _)
Nested(lines, open) ==
    IF lines = <<>> THEN open = <<>>
    ELSE LET line == Head(lines) IN
         CASE IsLoop(line) -> Nested(Tail(lines), Append(open, "loop"))
           [] IsBranch(line) -> Nested(Tail(lines), Append(open, "branch"))
           [] IsLend(line) ->
                /\ open # <<>> /\ open[Len(open)] = "loop"
                /\ Nested(Tail(lines), SubSeq(open, 1, Len(open) - 1))
           [] IsBend(line) ->
                /\ open # <<>> /\ open[Len(open)] = "branch"
                /\ Nested(Tail(lines), SubSeq(open, 1, Len(open) - 1))
           [] OTHER -> Nested(Tail(lines), open)

(***************************************************************************)
(* C1.  In the final buffer the open and close tokens of the branch groups *)
(* and loops are paired: read front to back they nest properly, and there  *)
(* are as many branch lines as bend(); lines.                              *)
(* The code does not do this: an if without an else is never closed.       *)
(***************************************************************************)
C1_OpenClosePaired ==
    Done =>
      /\ Nested(vfc_lines, <<>>)
      /\ CountLines(IsBranch) = CountLines(IsBend)

(***************************************************************************)
(* C2.  Every for element of the input, wherever it is in the tree, has    *)
(* exactly one loop line before and exactly one lend line after all the    *)
(* lines of its descendants, so that the output has as many loop lines and *)
(* as many lend lines as the input has for elements.                       *)
(***************************************************************************)
ForFramed(path) ==
    LET opens == LinesOf(path, IsLoop)
        closes == LinesOf(path, IsLend)
        inner == LinesInside(path)
    IN  /\ Cardinality(opens) = 1
        /\ Cardinality(closes) = 1
        /\ \A i \in opens, k \in closes : i < k
        /\ \A i \in opens, j \in inner : i < j
        /\ \A j \in inner, k \in closes : j < k

ForPaths == {path \in PathsIn(root) : TagAt(path) = "for"}

\* C2, as claimed: every for element of the tree.
C2_EveryForFramed ==
    Done =>
      /\ \A path \in ForPaths : ForFramed(path)
      /\ CountLines(IsLoop) = Cardinality(ForPaths)
      /\ CountLines(IsLend) = Cardinality(ForPaths)

\* C2, amended: the same of every for element that is not below a let, task
\* or p element (the walk does not visit the children of those).
C2_VisitedForFramed ==
    Done =>
      LET visited == {path \in ForPaths : NotBelowLeaf(path)} IN
      /\ \A path \in visited : ForFramed(path)
      /\ CountLines(IsLoop) = Cardinality(visited)
      /\ CountLines(IsLend) = Cardinality(visited)

\* A for element with lines inside it, itself inside a for element, and a
\* for element below a let.
C2_Witness ==
    /\ Done
    /\ \E path \in ForPaths :
         /\ NotBelowLeaf(path)
         /\ LinesInside(path) # {}
         /\ \E other \in ForPaths : Inside(path, other) /\ ~NotBelowLeaf(other)

(***************************************************************************)
(* C3.  Every if element with a later sibling else has exactly one bend(); *)
(* line for its group, the one of that else, after all the lines of the    *)
(* else and of its descendants and after the if's branch line; no element  *)
(* of the group from the if to the else emits another.                     *)
(***************************************************************************)
Parent(path) == SubSeq(path, 1, Len(path) - 1)

Index(path) == path[Len(path)]

LaterElses(path) ==
    IF path = <<>> THEN {}
    ELSE {j \in (Index(path) + 1)..Len(ElementAt(root, Parent(path)).children) :
            TagAt(Append(Parent(path), j)) = "else"}

FirstElse(path) == CHOOSE j \in LaterElses(path) : \A k \in LaterElses(path) : j <= k

GroupClosed(path) ==
    LET else_path == Append(Parent(path), FirstElse(path))
        group == {Append(Parent(path), j) : j \in Index(path)..FirstElse(path)}
        bends == {i \in DOMAIN vfc_lines : origin[i] \in group /\ IsBend(vfc_lines[i])}
    IN  /\ Cardinality(bends) = 1
        /\ \A k \in bends :
             /\ origin[k] = else_path
             /\ \A i \in LinesInside(else_path) : i < k
             /\ \A i \in DOMAIN vfc_lines : origin[i] = else_path /\ i # k => i < k
             /\ \E b \in LinesOf(path, IsBranch) : b < k

IfElsePaths == {path \in PathsIn(root) : TagAt(path) = "if" /\ LaterElses(path) # {}}

\* C3, as claimed: every if element with a later sibling else.
C3_EveryIfElseClosed == Done => \A path \in IfElsePaths : GroupClosed(path)

\* C3, amended: the same of every such if element that is not below a let,
\* task or p element.
C3_VisitedIfElseClosed ==
    Done => \A path \in IfElsePaths : NotBelowLeaf(path) => GroupClosed(path)

\* <if><if/><else/></if><else/>: a group nested in the body of an if that
\* has its own else.
C3_Witness ==
    /\ Done
    /\ <<1>> \in IfElsePaths
    /\ <<1, 1>> \in IfElsePaths
    /\ TagAt(<<>>) = "poml"

(***************************************************************************)
(* C4.  A document with no for and no if element yields no loop, lend,     *)
(* branch or bend line.                                                    *)
(* The code does not do this: an else with no if still emits bend();.      *)
(***************************************************************************)
C4_NoForNoIfNoTokens ==
    Done /\ (\A path \in PathsIn(root) : TagAt(path) \notin {"for", "if"}) =>
      /\ CountLines(IsLoop) = 0
      /\ CountLines(IsLend) = 0
      /\ CountLines(IsBranch) = 0
      /\ CountLines(IsBend) = 0

(***************************************************************************)
(* The step in which _process_element is called on an element.             *)
(***************************************************************************)
Calling ==
    \/ pc = "process_root"
    \/ pc = "process_element" /\ stack # <<>> /\ Top.child <= Len(TopElement.children)

CallTarget == IF pc = "process_root" THEN <<>> ELSE Append(Top.path, Top.child)

\* The attribute of the element the step is called on, "" when it is missing.
AttrOrEmpty(key) ==
    LET attrib == ElementAt(root, CallTarget).attrib IN
    IF attrib[key] = <<>> THEN <<>> ELSE attrib[key][1]

HasBreak(value) == \E i \in 1..Len(value) : value[i] = "\n"

SetNameValue(name, value) ==
    <<"set(name=\"">> \o name \o <<"\" value=\"">> \o value \o <<"\");">>

(***************************************************************************)
(* C5.  A call on a let element whose value has no line break appends      *)
(* exactly the three lines  set(name="<name>" value="<value>");  end();    *)
(* and an empty line, a missing name or value being the empty string.      *)
(***************************************************************************)
C5_LetSingleLine ==
    [][ Calling /\ TagAt(CallTarget) = "let" /\ ~HasBreak(AttrOrEmpty("value"))
        => vfc_lines' = vfc_lines \o
             << SetNameValue(AttrOrEmpty("name"), AttrOrEmpty("value")),
                <<"end();">>,
                <<>> >> ]_vars

\* <let/>, with neither name nor value, has been converted.
C5_Witness ==
    /\ Len(vfc_lines) >= 9
    /\ origin[7] = <<1>> /\ origin[9] = <<1>>
    /\ <<1>> \in PathsIn(root)
    /\ TagAt(<<1>>) = "let"
    /\ ElementAt(root, <<1>>).attrib = NoAttrib
    /\ vfc_lines[7] = <<"set(name=\"", "\" value=\"", "\");">>
    /\ vfc_lines[8] = <<"end();">>
    /\ vfc_lines[9] = <<>>

(***************************************************************************)
(* C6.  A call on a let element whose value has a line break appends: the  *)
(* set() line of the name and the first non-empty trimmed line; a          *)
(* set(<line>); for every later trimmed line that is neither empty nor ];  *)
(* the closing line if and only if the last trimmed line of the value is   *)
(* ]; then end(); and an empty line.                                       *)
(***************************************************************************)
TrimmedLines(value) == [i \in 1..Len(split(value)) |-> strip(split(value)[i])]

NonEmpty(lines) == {i \in 1..Len(lines) : lines[i] # <<>>}

Least(S) == CHOOSE i \in S : \A j \in S : i <= j

Greatest(S) == CHOOSE i \in S : \A j \in S : i >= j

FirstNonEmpty(lines) ==
    IF NonEmpty(lines) = {} THEN <<>> ELSE lines[Least(NonEmpty(lines))]

AfterFirstNonEmpty(lines) ==
    IF NonEmpty(lines) = {} THEN <<>>
    ELSE SubSeq(lines, Least(NonEmpty(lines)) + 1, Len(lines))

SetLines(lines) ==
    LET kept == SelectSeq(lines, LAMBDA line : line # <<>> /\ line # <<"]">>)
    IN  [i \in 1..Len(kept) |-> <<"set(">> \o kept[i] \o <<");">>]

ClosingLine == <<"set(]\");">>

LetMultiLine(name, value, closing) ==
    << SetNameValue(name, FirstNonEmpty(TrimmedLines(value))) >>
      \o SetLines(AfterFirstNonEmpty(TrimmedLines(value)))
      \o (IF closing THEN <<ClosingLine>> ELSE <<>>)
      \o << <<"end();">>, <<>> >>

LastTrimmedIsBracket(value) ==
    TrimmedLines(value)[Len(TrimmedLines(value))] = <<"]">>

LastNonEmptyIsBracket(value) ==
    LET lines == TrimmedLines(value) IN
    NonEmpty(lines) # {} /\ lines[Greatest(NonEmpty(lines))] = <<"]">>

\* C6, as claimed: the closing line goes by the last trimmed line.
C6_LetMultiLine ==
    [][ Calling /\ TagAt(CallTarget) = "let" /\ HasBreak(AttrOrEmpty("value"))
        => vfc_lines' = vfc_lines \o
             LetMultiLine(AttrOrEmpty("name"), AttrOrEmpty("value"),
                          LastTrimmedIsBracket(AttrOrEmpty("value"))) ]_vars

\* C6, amended: the closing line is appended if and only if the last
\* non-empty trimmed line of the value is ] (blank lines may follow it).
C6_LetMultiLineLastNonEmpty ==
    [][ Calling /\ TagAt(CallTarget) = "let" /\ HasBreak(AttrOrEmpty("value"))
        => vfc_lines' = vfc_lines \o
             LetMultiLine(AttrOrEmpty("name"), AttrOrEmpty("value"),
                          LastNonEmptyIsBracket(AttrOrEmpty("value"))) ]_vars

\* The value with the trimmed lines "a,", "b,", "]" has been converted.
C6_Witness ==
    /\ Len(vfc_lines) >= 11
    /\ <<1>> \in PathsIn(root)
    /\ TagAt(<<1>>) = "let"
    /\ ElementAt(root, <<1>>).attrib["value"] = <<ExampleValue>>
    /\ \A i \in 7..11 : origin[i] = <<1>>
    /\ vfc_lines[7] = <<"set(name=\"", "x", "\" value=\"", "a", ",", "\");">>
    /\ vfc_lines[8] = <<"set(", "b", ",", ");">>
    /\ vfc_lines[9] = ClosingLine
    /\ vfc_lines[10] = <<"end();">>
    /\ vfc_lines[11] = <<>>

(***************************************************************************)
(* C7.  An empty root element yields the six header lines followed by the  *)
(* ten footer lines, which start with end();, and nothing between; the     *)
(* text returned is these sixteen lines joined by "\n", with no trailing   *)
(* separator.                                                              *)
(***************************************************************************)
C7_EmptyRoot ==
    Done /\ TagAt(<<>>) = "poml" /\ root.children = <<>> =>
      /\ Len(vfc_lines) = 16
      /\ vfc_lines[1] = <<";  IRL FlowCode Version: Version 10.0">>
      /\ vfc_lines[2] = <<";  c1995-2015: Visual Flow Coder by 2LResearch">>
      /\ vfc_lines[3] = <<";">>
      /\ vfc_lines[4] = <<";  File Name : ">> \o output_filename
      /\ StartsWith(vfc_lines[5], ";  File Date : ")
      /\ vfc_lines[6] = <<>>
      /\ vfc_lines[7] = <<"end();">>
      /\ SubSeq(vfc_lines, 7, 16) = footer_lines
      /\ Cardinality({i \in DOMAIN result.value : result.value[i] = "\n"}) = 15
      /\ result.value[Len(result.value)] # "\n"
      /\ split(result.value) = vfc_lines

C7_Witness == Done /\ root = Poml(<<>>) /\ Len(vfc_lines) = 16

(***************************************************************************)
(* C8.  No state carries over between the calls on one instance: once a    *)
(* call has been entered the buffer is empty and the indentation is 0,     *)
(* whatever the calls before it left, and the text a call returns is the   *)
(* text of the header, of the lines of its own document and of the footer, *)
(* as a new instance returns it (the clock reading apart).                 *)
(***************************************************************************)
FreshLines(element, filename, hour) ==
    header_lines(filename, hour) \o process_element_lines(element) \o footer_lines

\* C8: the buffer is empty after the entry of a call, and the text returned
\* is that of a new instance.
C8_NoCarryOver ==
    /\ pc = "add_header" => vfc_lines = <<>> /\ indent_level = 0
    /\ Done =>
         \E hour \in Hours :
           /\ vfc_lines = FreshLines(root, output_filename, hour)
           /\ result.value = join(FreshLines(root, output_filename, hour))

\* A call has been entered on an instance whose buffer held the lines of an
\* earlier conversion, one that returned text (more than the header's six
\* lines) or one that failed (the six lines).
C8_Witness ==
    /\ pc = "add_header"
    /\ stale >= 6
    /\ vfc_lines = <<>>

(***************************************************************************)
(* C9.  A call on text that is not well-formed ends in a ValueError that   *)
(* carries the parse diagnostic and returns no text; nothing is retried    *)
(* and no footer is appended; a call ends either so or with text.          *)
(***************************************************************************)
C9_ParseErrorOutcome ==
    pc = "idle" =>
      /\ result.kind \in {"none", "text", "ValueError"}
      /\ result.kind = "none" => vfc_lines = <<>> /\ root = Unbound
      /\ result.kind = "text" <=> root # Unbound
      /\ result.kind = "ValueError" =>
           /\ \E diagnostic \in Diagnostics :
                result.value = <<"Invalid POML XML: ", diagnostic>>
           /\ Len(vfc_lines) = 6
           /\ \A i \in DOMAIN vfc_lines : vfc_lines[i] # <<"end();">>
           /\ stack = <<>>

C9_Witness ==
    /\ pc = "idle"
    /\ result.kind = "ValueError"
    /\ root = Unbound
    /\ Len(vfc_lines) = 6

(***************************************************************************)
(* C10.  A call on a well-formed tree always ends with text: once the tree *)
(* is bound the call can take a step until it returns, and it returns      *)
(* text.  A missing name, value or condition and an absent or              *)
(* all-whitespace text are the empty string in the token; an element with  *)
(* an unrecognized tag appends nothing.                                    *)
(***************************************************************************)
Blank(text) == text = <<>> \/ \A i \in 1..Len(text[1]) : text[1][i] \in {" ", "\n"}

BareLines(tag) ==
    CASE tag = "let" -> << <<"set(name=\"", "\" value=\"", "\");">>, <<"end();">>, <<>> >>
      [] tag = "task" -> << <<"input(", ");">> >>
      [] tag = "p" -> << <<"output(", ");">> >>
      [] tag = "for" -> << <<"loop(for each);">>, <<"lend();">> >>
      [] tag = "if" -> << <<"branch(if  condition=\"", "\");">>, <<"path();">> >>
      [] tag = "elseif" -> << <<"path(condition=\"", "\");">> >>
      [] tag = "else" -> << <<"path(else);">>, <<"bend();">> >>
      [] OTHER -> <<>>

\* The root container holds one element, with no attribute, no child and
\* no text but whitespace.
OneBareElement ==
    /\ TagAt(<<>>) = "poml"
    /\ Len(root.children) = 1
    /\ root.children[1].attrib = NoAttrib
    /\ root.children[1].children = <<>>
    /\ Blank(root.children[1].text)

\* The guard of one of process_root, process_child, process_return,
\* _add_footer and parse_return holds.
CanStep ==
    \/ pc \in {"process_root", "add_footer", "return"}
    \/ /\ pc = "process_element"
       /\ stack # <<>>
       /\ Top.path \in PathsIn(root)
       /\ Top.child \in 1..(Len(TopElement.children) + 1)

\* C10: a bound tree never ends in an error, and what is missing is the
\* empty string.
C10_NeverAnError ==
    /\ root # Unbound /\ pc = "idle" => result.kind = "text"
    /\ root # Unbound /\ pc # "idle" => CanStep
    /\ Done /\ OneBareElement =>
         SubSeq(vfc_lines, 7, Len(vfc_lines) - 10) = BareLines(TagAt(<<1>>))

\* <task> </task>, <if/> without a condition or <div/> has been converted.
C10_Witness ==
    /\ Done
    /\ OneBareElement
    /\ \/ TagAt(<<1>>) = "task" /\ root.children[1].text = <<<<" ">>>>
       \/ TagAt(<<1>>) = "if"
       \/ TagAt(<<1>>) = "div"


(***************************************************************************)
(* C12: within one conversion the line buffer is mutated only by append.   *)
(* After the reset of parse's entry, every step of the header emission,    *)
(* the walk and the footer emission leaves the buffer it found as a prefix *)
(* of the buffer it leaves (nothing removed, reordered or rewritten), the  *)
(* footer's step appends exactly the ten footer lines, and nothing is      *)
(* appended after them: the return leaves the buffer alone.                *)
(***************************************************************************)
IsPrefix(before, after) ==
    /\ Len(before) <= Len(after)
    /\ SubSeq(after, 1, Len(before)) = before

Converting == pc # "idle"

C12_AppendOnly ==
    [][Converting =>
         /\ IsPrefix(vfc_lines, vfc_lines')
         /\ pc = "add_footer" => vfc_lines' = vfc_lines \o footer_lines
         /\ pc = "return" => vfc_lines' = vfc_lines]_vars

\* The walk has appended lines between the header and the footer.
C12_Witness ==
    /\ pc = "return"
    /\ Len(vfc_lines) > Len(header_lines(output_filename, 1)) + Len(footer_lines) + 2
    /\ SubSeq(vfc_lines, Len(vfc_lines) - 9, Len(vfc_lines)) = footer_lines

(***************************************************************************)
(* C11: conversion is deterministic apart from the clock.  Two conversions *)
(* of the same document with the same output file name, at whatever times  *)
(* and with the same instance or another, leave line buffers of the same   *)
(* length that are equal at every position but the header's file-date line;*)
(* and any two conversions, of whatever documents, agree on the header's   *)
(* two banner lines and on the ten footer lines.                           *)
(***************************************************************************)
FileDateLine == 5

BannerLines == {1, 2}

FooterOf(lines) == SubSeq(lines, Len(lines) - Len(footer_lines) + 1, Len(lines))

SameInput ==
    /\ earlier.root = root
    /\ earlier.output_filename = output_filename

C11_DeterministicApartFromClock ==
    Done /\ earlier.kept =>
        /\ SameInput =>
             /\ Len(vfc_lines) = Len(earlier.vfc_lines)
             /\ \A i \in DOMAIN vfc_lines :
                  i # FileDateLine => vfc_lines[i] = earlier.vfc_lines[i]
        /\ \A i \in BannerLines : vfc_lines[i] = earlier.vfc_lines[i]
        /\ Len(vfc_lines) >= Len(footer_lines)
        /\ Len(earlier.vfc_lines) >= Len(footer_lines)
        /\ FooterOf(vfc_lines) = FooterOf(earlier.vfc_lines)
        /\ FooterOf(vfc_lines) = footer_lines

\* The same document converted again at another time, with statement lines
\* between the header and the footer.
C11_Witness ==
    /\ Done
    /\ earlier.kept
    /\ SameInput
    /\ vfc_lines[FileDateLine] # earlier.vfc_lines[FileDateLine]
    /\ Len(vfc_lines) > Len(header_lines(output_filename, 1)) + Len(footer_lines) + 2

(***************************************************************************)
(* C13: an element with an unknown tag emits no line of its own and its    *)
(* children are processed in document order regardless.  In a conversion   *)
(* that returned, no line was appended by the call on an unknown element;  *)
(* no line was appended by a call below a let, task or p element; and the  *)
(* conversion of a document with an unknown element and the conversion of  *)
(* the same document with that element replaced by the row of its children *)
(* leave the same lines, the header's file-name and file-date lines apart. *)
(***************************************************************************)
KnownTags == {"poml", "let", "task", "for", "if", "elseif", "else", "p"}

Unknown(element) == lower(element.tag) \notin KnownTags

\* element with the element at path, which is not the root, replaced by
\* the row of its children.
RECURSIVE Splice(_, _)
Splice(element, path) ==
    LET i == Head(path)
        row == element.children
    IN  IF Len(path) = 1
        THEN [element EXCEPT !.children =
                SubSeq(row, 1, i - 1) \o row[i].children \o SubSeq(row, i + 1, Len(row))]
        ELSE [element EXCEPT !.children[i] = Splice(row[i], Tail(path))]

OwnLines(path) == {i \in DOMAIN vfc_lines : origin[i] = path}

FileNameLine == 4

SameLines(lines, others) ==
    /\ Len(lines) = Len(others)
    /\ \A i \in DOMAIN lines :
         i \notin {FileNameLine, FileDateLine} => lines[i] = others[i]

C13_UnknownTagTransparent ==
    Done =>
        /\ \A path \in PathsIn(root) :
             /\ Unknown(ElementAt(root, path)) => OwnLines(path) = {}
             /\ TagAt(path) \in LeafTags => LinesInside(path) = {}
        /\ earlier.kept =>
             \A path \in PathsIn(earlier.root) \ {<<>>} :
                  /\ Unknown(ElementAt(earlier.root, path))
                  /\ root = Splice(earlier.root, path)
                  => SameLines(vfc_lines, earlier.vfc_lines)

\* A document with an unknown element holding two different children was
\* converted, and then the document with the two children in its place.
C13_Witness ==
    /\ Done
    /\ earlier.kept
    /\ <<1, 2>> \in PathsIn(earlier.root)
    /\ Unknown(ElementAt(earlier.root, <<1>>))
    /\ ElementAt(earlier.root, <<1, 1>>).tag # ElementAt(earlier.root, <<1, 2>>).tag
    /\ root = Splice(earlier.root, <<1>>)
    /\ Len(vfc_lines) > Len(header_lines(output_filename, 1)) + Len(footer_lines) + 2

=============================================================================
